---- MODULE Spec2Model ----
(***************************************************************************)
(* A model of the nautilus-server price-feed relay:                        *)
(*   sui.rs   SuiClientWrapper::fetch_price_feed  (chain descriptor fetch)  *)
(*   app.rs   extract_field_from_json             (path extraction)        *)
(*   app.rs   process_data                        (the request pipeline)   *)
(*                                                                         *)
(* Text is modelled as sequences of one-character strings, so that the     *)
(* code's find / slice / parse / format steps are computed, not assumed.   *)
(* JSON values are tagged records [t |-> tag, v |-> payload].              *)
(***************************************************************************)
EXTENDS Integers, Sequences, FiniteSets, TLC

VARIABLES
    pc,                \* position of the request in process_data
    overflow_checks,   \* build profile: are integer overflow checks compiled in
    price_decimals,    \* state.config.response.price_decimals
    price_feed_id,     \* request.payload.price_feed_id
    response_body,     \* the JSON body the Sui RPC answered with
    price_feed,        \* the PriceFeed descriptor fetch_price_feed returned
    request_builder,   \* the GET request being put together
    sent,              \* the external GET requests issued so far
    response,          \* the body the external endpoint answered with
    json,              \* the external response parsed as JSON
    price_value,       \* the value extract_field_from_json located
    price,             \* the scaled u64 price, Some(n) once computed
    current_timestamp, \* the clock reading in ms, Some(t) once taken
    signed,            \* the signed response handed back to the caller
    error,             \* the error the request ended with
    arg,               \* input of the function under check (function specifications)
    ret                \* its result

vars == <<pc, overflow_checks, price_decimals, price_feed_id, response_body,
          price_feed, request_builder, sent, response, json, price_value, price, current_timestamp,
          signed, error, arg, ret>>

None == [t |-> "none"]

---------------------------------------------------------------------------
(* Bounds of the model *)

\* longest path, counted in pieces of PathPieces
MaxPieces == 4

\* TLC computes with 32-bit integers, so the widths are scaled down together:
\* u64 is WordBits bits wide and the 96-bit mantissa of Decimal 3/2 as wide
WordBits == 16

\* largest configured price_decimals
MaxDecimals == 6

\* the configured price_decimals: the small ones, and the first for which
\* 10^d is a multiple of 2^WordBits (d = 64 for u64)
DecimalsValues == 0..MaxDecimals \cup {WordBits}

\* largest digit string (as a number) among the value texts
MaxMantissa == 9999

---------------------------------------------------------------------------
(* serde_json::Value *)

JNull == [t |-> "null"]
JBool(b) == [t |-> "bool", v |-> b]
JNum(n) == [t |-> "num", v |-> n]
JStr(s) == [t |-> "str", v |-> s]
JArr(a) == [t |-> "arr", v |-> a]
JObj(o) == [t |-> "obj", v |-> o]

\* serde_json::Number: N::PosInt(u64), N::NegInt(i64) (n is the magnitude) and
\* N::Float(f64).  A finite f64 is identified by its shortest round-trip
\* decimal form digits * 10^exp (digits without trailing zeros), the form
\* both the JSON parser's rounding and ryu's printing are defined by.
PosInt(n) == [k |-> "PosInt", n |-> n]
NegInt(n) == [k |-> "NegInt", n |-> n]
Float(neg, digits, exp) == [k |-> "Float", neg |-> neg, digits |-> digits, exp |-> exp]

Some(x) == [t |-> "some", v |-> x]

\* Value::get(&str): Some only for an object holding the key
get(value, key) ==
    IF value.t = "obj" /\ key \in DOMAIN value.v THEN Some(value.v[key]) ELSE None

\* Value::get(usize): Some only for an array with index < len (0-based index)
get_index(value, index) ==
    IF value.t = "arr" /\ index + 1 \in DOMAIN value.v THEN Some(value.v[index + 1]) ELSE None

---------------------------------------------------------------------------
(* str helpers; positions are 1-based here, 0-based in the source *)

Digits == {"0", "1", "2", "3", "4", "5", "6", "7", "8", "9"}

DigitVal(c) ==
    CASE c = "0" -> 0 [] c = "1" -> 1 [] c = "2" -> 2 [] c = "3" -> 3 [] c = "4" -> 4
      [] c = "5" -> 5 [] c = "6" -> 6 [] c = "7" -> 7 [] c = "8" -> 8 [] c = "9" -> 9

\* str::find(char): position of the first occurrence, 0 when there is none
find(s, c) ==
    IF \E i \in 1..Len(s) : s[i] = c
    THEN CHOOSE i \in 1..Len(s) : s[i] = c /\ \A j \in 1..(i - 1) : s[j] # c
    ELSE 0

\* &s[from..]
Tail_from(s, from) == SubSeq(s, from, Len(s))

RECURSIVE DigitsValue(_)
DigitsValue(s) ==
    IF s = <<>> THEN 0 ELSE 10 * DigitsValue(SubSeq(s, 1, Len(s) - 1)) + DigitVal(s[Len(s)])

AllDigits(s) == s # <<>> /\ \A i \in 1..Len(s) : s[i] \in Digits

\* str::parse::<usize>(): an optional '+', then one or more digits
\* (texts here are too short to exceed usize::MAX)
parse_usize(s) ==
    LET body == IF s # <<>> /\ s[1] = "+" THEN Tail(s) ELSE s
    IN  IF AllDigits(body) THEN Some(DigitsValue(body)) ELSE None

---------------------------------------------------------------------------
(* app.rs: extract_field_from_json *)

Ok(v) == [kind |-> "Ok", value |-> v]
Err(msg, name, index) == [kind |-> "Err", msg |-> msg, name |-> name, index |-> index]
Panic == [kind |-> "Panic"]

FieldNotFound(field_name) == Err("Field not found", field_name, 0)
MissingClosingBracket == Err("Missing closing bracket in field path", <<>>, 0)
InvalidArrayIndex(index_str) == Err("Invalid array index", index_str, 0)
IndexOutOfBounds(index) == Err("Array index not found or out of bounds", <<>>, index)

RECURSIVE extract_loop(_, _)

\* extract_bracket that leaves the '.' after the ']' in the remaining path
extract_bracket_keeping_dot(current, remaining_path, bracket_start) ==
    LET bracket_end == find(remaining_path, "]")
        index_str == SubSeq(remaining_path, bracket_start + 1, bracket_end - 1)
        index == parse_usize(index_str)
        element == get_index(current, index.v)
        after == Tail_from(remaining_path, bracket_end + 1)
    IN  IF bracket_end = 0 THEN MissingClosingBracket
        ELSE IF bracket_end < bracket_start THEN Panic
        ELSE IF index = None THEN InvalidArrayIndex(index_str)
        ELSE IF element = None THEN IndexOutOfBounds(index.v)
        ELSE extract_loop(element.v, after)

\* the bracket branch of the loop body, lines 44-73, after the field lookup
extract_bracket(current, remaining_path, bracket_start) ==
    LET bracket_end == find(remaining_path, "]")
        index_str == SubSeq(remaining_path, bracket_start + 1, bracket_end - 1)
        index == parse_usize(index_str)
        element == get_index(current, index.v)
        after == Tail_from(remaining_path, bracket_end + 1)
        rest == IF after # <<>> /\ after[1] = "." THEN Tail(after) ELSE after
    IN  IF bracket_end = 0 THEN MissingClosingBracket
        ELSE IF bracket_end < bracket_start THEN Panic  \* slice start > end
        ELSE IF index = None THEN InvalidArrayIndex(index_str)
        ELSE IF element = None THEN IndexOutOfBounds(index.v)
        ELSE extract_loop(element.v, rest)

\* the while loop, lines 42-90
extract_loop(current, remaining_path) ==
    LET bracket_start == find(remaining_path, "[")
        dot_pos == find(remaining_path, ".")
    IN  IF remaining_path = <<>> THEN Ok(current)
        ELSE IF bracket_start # 0 THEN
            LET field_name == SubSeq(remaining_path, 1, bracket_start - 1)
                member == get(current, field_name)
            IN  IF field_name # <<>>
                THEN IF member = None THEN FieldNotFound(field_name)
                     ELSE extract_bracket(member.v, remaining_path, bracket_start)
                ELSE extract_bracket(current, remaining_path, bracket_start)
        ELSE IF dot_pos # 0 THEN
            LET field_name == SubSeq(remaining_path, 1, dot_pos - 1)
                member == get(current, field_name)
            IN  IF member = None THEN FieldNotFound(field_name)
                ELSE extract_loop(member.v, Tail_from(remaining_path, dot_pos + 1))
        ELSE
            LET member == get(current, remaining_path)
            IN  IF member = None THEN FieldNotFound(remaining_path) ELSE Ok(member.v)

extract_field_from_json(root, field_path) == extract_loop(root, field_path)

---------------------------------------------------------------------------
(* Inputs of the extraction check *)

\* the pieces paths are put together from
PathPieces ==
    { <<"a">>, <<".", "a">>, <<".", "b">>,
      <<"[", "0", "]">>, <<"[", "1", "]">>, <<"[", "x", "]">>,
      <<"[", "0">>, <<"]">> }

RECURSIVE PathsUpTo(_)
PathsUpTo(n) ==
    IF n = 0 THEN {<<>>}
    ELSE LET shorter == PathsUpTo(n - 1)
         IN  shorter \cup {p \o q : p \in shorter, q \in PathPieces}

Paths == PathsUpTo(MaxPieces)

Key_a == <<"a">>
Key_b == <<"b">>
Key_a_dot_b == <<"a", ".", "b">>
Key_a_bracket == <<"a", "]">>

Leaf(n) == JNum(PosInt(n))

\* the documents paths are applied to
Docs ==
    << \* {"a":{"b":[{"a":5}]}}
       JObj(Key_a :> JObj(Key_b :> JArr(<<JObj(Key_a :> Leaf(5))>>))),
       \* [{"a":7},{"b":8}]
       JArr(<<JObj(Key_a :> Leaf(7)), JObj(Key_b :> Leaf(8))>>),
       \* {"a":[[1,2],[3]]}
       JObj(Key_a :> JArr(<<JArr(<<Leaf(1), Leaf(2)>>), JArr(<<Leaf(3)>>)>>)),
       \* {"a.b":[9],"a":{"b":[4,6]}}
       JObj(Key_a_dot_b :> JArr(<<Leaf(9)>>)
            @@ Key_a :> JObj(Key_b :> JArr(<<Leaf(4), Leaf(6)>>))),
       \* {"a":10,"b":{"a":{"b":11}}}
       JObj(Key_a :> Leaf(10) @@ Key_b :> JObj(Key_a :> JObj(Key_b :> Leaf(11)))),
       \* {"a]":[13]}
       JObj(Key_a_bracket :> JArr(<<Leaf(13)>>)),
       \* 12
       Leaf(12) >>

---------------------------------------------------------------------------
(* Specification of a single call of extract_field_from_json *)

Idle ==
    /\ pc = "Idle"
    /\ overflow_checks = FALSE
    /\ price_decimals = 0
    /\ price_feed_id = <<>>
    /\ response_body = None
    /\ price_feed = None
    /\ request_builder = None
    /\ sent = <<>>
    /\ response = None
    /\ json = None
    /\ price_value = None
    /\ price = None
    /\ current_timestamp = None
    /\ signed = None
    /\ error = None

pipeline_vars ==
    <<pc, overflow_checks, price_decimals, price_feed_id, response_body, price_feed,
      request_builder, sent, response, json, price_value, price, current_timestamp,
      signed, error>>

InitExtract ==
    /\ Idle
    /\ \E i \in DOMAIN Docs, p \in Paths :
           arg = [fn |-> "extract_field_from_json", json |-> Docs[i], field_path |-> p]
    /\ ret = None

CallExtract ==
    /\ ret = None
    /\ arg.fn = "extract_field_from_json"
    /\ ret' = extract_field_from_json(arg.json, arg.field_path)
    /\ UNCHANGED <<arg, pipeline_vars>>

NextExtract == CallExtract

SpecExtract == InitExtract /\ [][NextExtract]_vars

---------------------------------------------------------------------------
(* The path grammar and the walk it prescribes: a path is a sequence of    *)
(* field segments (no '.', '[' or ']') and index segments '[n]'; segments  *)
(* are joined by '.', an index segment attaches without a dot and may      *)
(* start the path.  Addressed is the left-to-right walk, one segment at a  *)
(* time; the claims about extract_field_from_json are stated against it.   *)

IsNameChar(c) == c \notin {".", "[", "]"}

\* length of the field name s starts with
RECURSIVE NameLen(_)
NameLen(s) == IF s = <<>> \/ ~IsNameChar(s[1]) THEN 0 ELSE 1 + NameLen(Tail(s))

SkipDot(s) == IF s # <<>> /\ s[1] = "." THEN Tail(s) ELSE s

\* prev is what came before s: "start", "field", "index" or "dot".  With
\* lenient, the text of an index segment may be anything and the last index
\* segment may lack its ']'.
RECURSIVE Shape(_, _, _)
Shape(s, prev, lenient) ==
    IF s = <<>> THEN prev \in {"field", "index"}
    ELSE IF s[1] = "[" THEN
        LET close == find(s, "]")
            text == SubSeq(s, 2, close - 1)
        IN  /\ prev # "dot"
            /\ IF close = 0 THEN lenient /\ find(Tail(s), "[") = 0
               ELSE /\ find(text, "[") = 0
                    /\ lenient \/ AllDigits(text)
                    /\ Shape(Tail_from(s, close + 1), "index", lenient)
    ELSE IF s[1] = "." THEN prev \in {"field", "index"} /\ Shape(Tail(s), "dot", lenient)
    ELSE IF s[1] = "]" THEN FALSE
    ELSE prev \in {"start", "dot"} /\ Shape(Tail_from(s, NameLen(s) + 1), "field", lenient)

WellFormed(path) == Shape(path, "start", FALSE)
WellFormedButForIndex(path) == Shape(path, "start", TRUE)

RECURSIVE Addressed(_, _)
Addressed(current, rest) ==
    IF rest = <<>> THEN Ok(current)
    ELSE IF rest[1] = "[" THEN
        LET close == find(rest, "]")
            text == SubSeq(rest, 2, close - 1)
            element == get_index(current, DigitsValue(text))
        IN  IF close = 0 THEN MissingClosingBracket
            ELSE IF ~AllDigits(text) THEN InvalidArrayIndex(text)
            ELSE IF element = None THEN IndexOutOfBounds(DigitsValue(text))
            ELSE Addressed(element.v, SkipDot(Tail_from(rest, close + 1)))
    ELSE
        LET name == SubSeq(rest, 1, NameLen(rest))
            member == get(current, name)
        IN  IF member = None THEN FieldNotFound(name)
            ELSE Addressed(member.v, SkipDot(Tail_from(rest, NameLen(rest) + 1)))

\* every key of the document is a name of the grammar
RECURSIVE PlainKeys(_)
PlainKeys(value) ==
    CASE value.t = "obj" ->
           \A k \in DOMAIN value.v :
               (\A i \in 1..Len(k) : IsNameChar(k[i])) /\ PlainKeys(value.v[k])
      [] value.t = "arr" -> \A i \in DOMAIN value.v : PlainKeys(value.v[i])
      [] OTHER -> TRUE

\* C2: for a well-formed path that addresses an existing value,
\* extract_field_from_json returns exactly that value, also when an index
\* segment follows two or more dotted field segments ("a.b[0].a").
C2_ExtractReturnsAddressedValue ==
    (/\ arg.fn = "extract_field_from_json"
     /\ ret # None
     /\ WellFormed(arg.field_path)
     /\ PlainKeys(arg.json)
     /\ Addressed(arg.json, arg.field_path).kind = "Ok")
    => ret = Addressed(arg.json, arg.field_path)

\* C3: when the walk fails, extract_field_from_json reports the error of the
\* first segment, left to right, that cannot be resolved, naming that segment.
C3_ErrorNamesFirstFailingSegment ==
    (/\ arg.fn = "extract_field_from_json"
     /\ ret # None
     /\ WellFormedButForIndex(arg.field_path)
     /\ PlainKeys(arg.json)
     /\ Addressed(arg.json, arg.field_path).kind = "Err")
    => ret = Addressed(arg.json, arg.field_path)

\* s without the index segments it starts with, and how many those are
RECURSIVE StripIndexes(_)
StripIndexes(s) ==
    IF s # <<>> /\ s[1] = "[" /\ find(s, "]") # 0
    THEN StripIndexes(Tail_from(s, find(s, "]") + 1))
    ELSE s

RECURSIVE CountIndexes(_)
CountIndexes(s) ==
    IF s # <<>> /\ s[1] = "[" /\ find(s, "]") # 0
    THEN 1 + CountIndexes(Tail_from(s, find(s, "]") + 1))
    ELSE 0

\* the edge cases of the grammar: a single field name; a path that begins
\* with an index segment; a field name followed by consecutive index
\* segments; the last two possibly continued by dotted field names
SingleField(path) == path # <<>> /\ NameLen(path) = Len(path)

LeadingIndex(path) ==
    /\ WellFormed(path)
    /\ path[1] = "["
    /\ find(StripIndexes(path), "[") = 0

ConsecutiveIndexes(path) ==
    /\ WellFormed(path)
    /\ NameLen(path) > 0
    /\ CountIndexes(Tail_from(path, NameLen(path) + 1)) >= 2
    /\ find(StripIndexes(Tail_from(path, NameLen(path) + 1)), "[") = 0

\* C18: on a document where the addressed value exists, a path of
\* consecutive index segments (a[0][1]), a path that begins with an index
\* segment ([0].a) and a path that is a single field name each return the
\* addressed value.
C18_EdgeCasesResolve ==
    (/\ arg.fn = "extract_field_from_json"
     /\ ret # None
     /\ SingleField(arg.field_path) \/ LeadingIndex(arg.field_path)
           \/ ConsecutiveIndexes(arg.field_path)
     /\ Addressed(arg.json, arg.field_path).kind = "Ok")
    => ret = Addressed(arg.json, arg.field_path)

\* a[0][1] on {"a":[[1,2],[3]]} returned 2
C18_Witness ==
    /\ arg.fn = "extract_field_from_json"
    /\ arg.field_path = <<"a", "[", "0", "]", "[", "1", "]">>
    /\ ConsecutiveIndexes(arg.field_path)
    /\ ret = Ok(Leaf(2))

\* C19: extract_field_from_json is total: for every document and every
\* path, also a malformed one with a ']' before the first '[', the call
\* returns a value or an error and never aborts on a slice range.
C19_ExtractNeverAborts ==
    (arg.fn = "extract_field_from_json" /\ ret # None) => ret.kind \in {"Ok", "Err"}

---------------------------------------------------------------------------
(* Numbers: u64, serde_json::Number, ryu, rust_decimal::Decimal *)

RECURSIVE Pow2(_)
Pow2(n) == IF n = 0 THEN 1 ELSE 2 * Pow2(n - 1)

RECURSIVE Pow10(_)
Pow10(n) == IF n = 0 THEN 1 ELSE 10 * Pow10(n - 1)

\* u64::MAX, and the magnitude of i64::MIN
U64_MAX == Pow2(WordBits) - 1
I64_MIN_MAGNITUDE == Pow2(WordBits - 1)

\* the largest mantissa of a Decimal (96 bits for 64-bit words)
DECIMAL_MAX == Pow2(WordBits + WordBits \div 2) - 1

DigitChar(d) == CHOOSE c \in Digits : DigitVal(c) = d

\* itoa: the decimal digits of n >= 0
RECURSIVE IntToText(_)
IntToText(n) ==
    IF n < 10 THEN <<DigitChar(n)>> ELSE IntToText(n \div 10) \o <<DigitChar(n % 10)>>

Zeros(k) == [i \in 1..k |-> "0"]

SignedIntToText(x) == IF x < 0 THEN <<"-">> \o IntToText(-x) ELSE IntToText(x)

\* ryu::Buffer::format_finite on the f64 whose shortest form is digits * 10^exp
ryu_format(neg, digits, exp) ==
    LET ds == IntToText(digits)
        n == Len(ds)
        kk == n + exp
        body ==
            IF digits = 0 THEN <<"0", ".", "0">>
            ELSE IF exp >= 0 /\ kk <= 16 THEN ds \o Zeros(exp) \o <<".", "0">>
            ELSE IF 0 < kk /\ kk <= 16
                 THEN SubSeq(ds, 1, kk) \o <<".">> \o SubSeq(ds, kk + 1, n)
            ELSE IF -5 < kk /\ kk <= 0 THEN <<"0", ".">> \o Zeros(-kk) \o ds
            ELSE IF n = 1 THEN ds \o <<"e">> \o SignedIntToText(kk - 1)
            ELSE <<ds[1], ".">> \o Tail(ds) \o <<"e">> \o SignedIntToText(kk - 1)
    IN  IF neg THEN <<"-">> \o body ELSE body

\* Value::to_string() of a number (Display of serde_json::Number)
number_to_string(number) ==
    CASE number.k = "PosInt" -> IntToText(number.n)
      [] number.k = "NegInt" -> <<"-">> \o IntToText(number.n)
      [] number.k = "Float" -> ryu_format(number.neg, number.digits, number.exp)

\* m * 10^e with the trailing zeros of m moved into the exponent
RECURSIVE ShortestForm(_, _, _)
ShortestForm(neg, m, e) ==
    IF m # 0 /\ m % 10 = 0 THEN ShortestForm(neg, m \div 10, e + 1)
    ELSE Float(neg, m, IF m = 0 THEN 0 ELSE e)

\* the parts of a decimal text: sign, digits before and after the point
Negative(text) == text # <<>> /\ text[1] = "-"
Unsigned(text) == IF text # <<>> /\ text[1] \in {"-", "+"} THEN Tail(text) ELSE text
IntPart(body) == IF find(body, ".") = 0 THEN body ELSE SubSeq(body, 1, find(body, ".") - 1)
FracPart(body) == IF find(body, ".") = 0 THEN <<>> ELSE Tail_from(body, find(body, ".") + 1)

\* a JSON number literal without exponent: -?(0|[1-9][0-9]*)(.[0-9]+)?
IsJsonNumber(text) ==
    LET body == IF Negative(text) THEN Tail(text) ELSE text
    IN  /\ AllDigits(IntPart(body))
        /\ Len(IntPart(body)) > 1 => IntPart(body)[1] # "0"
        /\ find(body, ".") # 0 => AllDigits(FracPart(body))

\* serde_json's number parser on such a literal: an integer literal becomes
\* PosInt / NegInt when it fits u64 / i64 ("-0" is the float -0.0), everything
\* else the nearest f64, which for the short literals used here is the
\* literal's own value
parse_number(text) ==
    LET body == IF Negative(text) THEN Tail(text) ELSE text
        n == DigitsValue(IntPart(body) \o FracPart(body))
    IN  IF find(body, ".") = 0 /\ ~Negative(text) /\ n <= U64_MAX THEN PosInt(n)
        ELSE IF find(body, ".") = 0 /\ Negative(text) /\ n # 0 /\ n <= I64_MIN_MAGNITUDE
             THEN NegInt(n)
        ELSE ShortestForm(Negative(text), n, -Len(FracPart(body)))

\* Decimal: value (-1)^neg * m / 10^s; from_parts never keeps the sign of zero
Decimal(neg, m, s) == [neg |-> neg /\ m # 0, m |-> m, s |-> s]

\* Decimal::from_str: an optional sign, digits with at most one point, at
\* least one digit (the texts used here fit the mantissa and the scale)
Decimal_from_str(text) ==
    LET body == Unsigned(text)
        digits == IntPart(body) \o FracPart(body)
    IN  IF AllDigits(digits)
        THEN Some(Decimal(Negative(text), DigitsValue(digits), Len(FracPart(body))))
        ELSE None

\* p / 10^k rounded half to even
RoundedDiv(p, k) ==
    LET q == p \div Pow10(k)
        r == p % Pow10(k)
    IN  IF 2 * r > Pow10(k) \/ (2 * r = Pow10(k) /\ q % 2 = 1) THEN q + 1 ELSE q

\* Decimal * Decimal::from(u64): the exact product when it fits the mantissa,
\* else the product with as many fraction digits dropped as it takes to fit,
\* and a panic ("Multiplication overflowed") when dropping all does not do
Decimal_mul(d, factor) ==
    LET p == d.m * factor
        fits == {k \in 0..d.s : RoundedDiv(p, k) <= DECIMAL_MAX}
        k == CHOOSE k \in fits : \A j \in fits : k <= j
    IN  IF p = 0 THEN Ok(Decimal(FALSE, 0, 0))
        ELSE IF fits = {} THEN Panic
        ELSE Ok(Decimal(d.neg, RoundedDiv(p, k), d.s - k))

\* Decimal::to_u64: None when negative or when the truncated value needs
\* more than 64 bits
Decimal_to_u64(d) ==
    IF d.neg \/ d.m \div Pow10(d.s) > U64_MAX THEN None ELSE Some(d.m \div Pow10(d.s))

\* 10_u64.pow(exp): panics on overflow when overflow checks are compiled in,
\* wraps modulo 2^64 when they are not
RECURSIVE wrapping_pow10(_)
wrapping_pow10(exp) ==
    IF exp = 0 THEN 1 ELSE (10 * wrapping_pow10(exp - 1)) % (U64_MAX + 1)

RECURSIVE pow10_overflows(_)
pow10_overflows(exp) ==
    exp # 0 /\ (pow10_overflows(exp - 1) \/ 10 * wrapping_pow10(exp - 1) > U64_MAX)

u64_pow10(exp, checks) ==
    IF pow10_overflows(exp) /\ checks THEN Panic ELSE Ok(wrapping_pow10(exp))

---------------------------------------------------------------------------
(* app.rs: process_data, lines 152-181: the extracted value to the price *)

NotNumberString == Err("Price field is not a valid number string", <<>>, 0)
NotNumber == Err("Price field is not a valid number", <<>>, 0)
NeitherStringNorNumber == Err("Price field is neither a string nor a number", <<>>, 0)
TooLarge == Err("Scaled price is too large to fit in u64", <<>>, 0)

\* lines 152-172
parse_price(value) ==
    LET from_string == Decimal_from_str(value.v)
        from_number == Decimal_from_str(number_to_string(value.v))
    IN  IF value.t = "str"
        THEN IF from_string = None THEN NotNumberString ELSE Ok(from_string.v)
        ELSE IF value.t = "num"
        THEN IF from_number = None THEN NotNumber ELSE Ok(from_number.v)
        ELSE NeitherStringNorNumber

\* lines 175-181
scale_price(price_decimal, decimals, checks) ==
    LET scale_factor == u64_pow10(decimals, checks)
        product == Decimal_mul(price_decimal, scale_factor.value)
        scaled == Decimal_to_u64(product.value)
    IN  IF scale_factor = Panic THEN Panic
        ELSE IF product = Panic THEN Panic
        ELSE IF scaled = None THEN TooLarge
        ELSE Ok(scaled.v)

normalize(value, decimals, checks) ==
    LET price_decimal == parse_price(value)
    IN  IF price_decimal.kind # "Ok" THEN price_decimal
        ELSE scale_price(price_decimal.value, decimals, checks)

---------------------------------------------------------------------------
(* Inputs of the normalization check *)

IntTexts == { <<"0">>, <<"1">>, <<"7">>, <<"1", "0", "0">>, <<"9", "9", "9", "9">> }
FracTexts ==
    { <<>>, <<".", "0">>, <<".", "5">>, <<".", "1", "2", "9">>, <<".", "4", "5">>,
      <<".", "0", "0", "0", "0", "1">>, <<".", "0", "0", "0", "0", "0", "1">> }

\* decimal texts, kept short enough for products to stay inside TLC's integers
DecimalTexts ==
    { t \in {sign \o i \o f : sign \in {<<>>, <<"-">>}, i \in IntTexts, f \in FracTexts} :
        /\ Len(t) <= 9
        /\ DigitsValue(IntPart(Unsigned(t)) \o FracPart(Unsigned(t))) <= MaxMantissa }

OtherTexts == { <<>>, <<"a">>, <<"1", "e", "2">>, <<"1", ".", "2", ".", "3">>, <<"-">> }

\* the extracted values: strings, the numbers the decimal literals parse to,
\* and one value of every other JSON type
NormalizeInputs ==
    {[value |-> JStr(t), text |-> t] : t \in DecimalTexts \cup OtherTexts}
    \cup {[value |-> JNum(parse_number(t)), text |-> t] :
              t \in {x \in DecimalTexts : IsJsonNumber(x)}}
    \cup {[value |-> v, text |-> <<>>] :
              v \in {JNull, JBool(TRUE), JArr(<<>>), JObj(<<>>)}}

InitNormalize ==
    /\ Idle
    /\ \E in \in NormalizeInputs, d \in DecimalsValues, checks \in BOOLEAN :
           arg = [fn |-> "normalize", value |-> in.value, text |-> in.text,
                  decimals |-> d, checks |-> checks]
    /\ ret = None

CallNormalize ==
    /\ ret = None
    /\ arg.fn = "normalize"
    /\ ret' = normalize(arg.value, arg.decimals, arg.checks)
    /\ UNCHANGED <<arg, pipeline_vars>>

NextNormalize == CallNormalize

SpecNormalize == InitNormalize /\ [][NextNormalize]_vars

---------------------------------------------------------------------------
(* sui.rs: SuiClientWrapper::fetch_price_feed *)

\* Value::as_str, Value::as_bool
as_str(value) == IF value.t = "str" THEN Some(value.v) ELSE None
as_bool(value) == IF value.t = "bool" THEN Some(value.v) ELSE None

\* fields.get(key).and_then(|v| v.as_str()), and the same with as_bool
get_str(value, key) == IF get(value, key) = None THEN None ELSE as_str(get(value, key).v)
get_bool(value, key) == IF get(value, key) = None THEN None ELSE as_bool(get(value, key).v)

Failure(msg) == Err(msg, <<>>, 0)

TYPE_SUFFIX ==
    <<":", ":", "o", "r", "a", "c", "l", "e", "_", "b", "u", "i", "l", "d", "e", "r",
      ":", ":", "P", "r", "i", "c", "e", "F", "e", "e", "d">>

\* format!("{}::oracle_builder::PriceFeed", self.oracle_builder_package_id)
expected_type(oracle_builder_package_id) == oracle_builder_package_id \o TYPE_SUFFIX

\* parse_fields with the required strings checked before is_valid
parse_fields_strings_first(fields) ==
    LET oracle_id == get_str(fields, "oracle_id")
        is_valid == get_bool(fields, "is_valid")
        underlying_url == get_str(fields, "underlying_url")
        response_field == get_str(fields, "response_field")
        live_url == get_str(fields, "live_url")
    IN  IF oracle_id = None THEN Failure("Missing or invalid oracle_id field")
        ELSE IF underlying_url = None THEN Failure("Missing or invalid underlying_url field")
        ELSE IF response_field = None THEN Failure("Missing or invalid response_field field")
        ELSE IF live_url = None THEN Failure("Missing or invalid live_url field")
        ELSE IF is_valid = None THEN Failure("Missing or invalid is_valid field")
        ELSE Ok([oracle_id |-> oracle_id.v,
                 is_valid |-> is_valid.v,
                 api_key |-> get_str(fields, "api_key"),
                 api_key_config |-> get_str(fields, "api_key_config"),
                 underlying_url |-> underlying_url.v,
                 response_field |-> response_field.v,
                 live_url |-> live_url.v])

\* lines 99-147: the descriptor from content.fields
parse_fields(fields) ==
    LET oracle_id == get_str(fields, "oracle_id")
        is_valid == get_bool(fields, "is_valid")
        api_key == get_str(fields, "api_key")
        api_key_config == get_str(fields, "api_key_config")
        underlying_url == get_str(fields, "underlying_url")
        response_field == get_str(fields, "response_field")
        live_url == get_str(fields, "live_url")
    IN  IF oracle_id = None THEN Failure("Missing or invalid oracle_id field")
        ELSE IF is_valid = None THEN Failure("Missing or invalid is_valid field")
        ELSE IF underlying_url = None THEN Failure("Missing or invalid underlying_url field")
        ELSE IF response_field = None THEN Failure("Missing or invalid response_field field")
        ELSE IF live_url = None THEN Failure("Missing or invalid live_url field")
        ELSE Ok([oracle_id |-> oracle_id.v,
                 is_valid |-> is_valid.v,
                 api_key |-> api_key,
                 api_key_config |-> api_key_config,
                 underlying_url |-> underlying_url.v,
                 response_field |-> response_field.v,
                 live_url |-> live_url.v])

\* validate_response accepting any string as the object's type
validate_response_any_type(body, oracle_builder_package_id) ==
    LET result == get(body, "result")
        data == get(result.v, "data")
        object_type == get_str(data.v, "type")
        content == get(data.v, "content")
        fields == get(content.v, "fields")
    IN  IF get(body, "error") # None THEN Failure("Sui RPC error")
        ELSE IF result = None THEN Failure("No result in RPC response")
        ELSE IF data = None THEN Failure("No data in result")
        ELSE IF object_type = None THEN Failure("Missing object type")
        ELSE IF content = None THEN Failure("Missing content")
        ELSE IF fields = None THEN Failure("Missing fields in content")
        ELSE parse_fields(fields.v)

\* lines 61-97: the checks on the RPC response that lead to content.fields
validate_response(body, oracle_builder_package_id) ==
    LET result == get(body, "result")
        data == get(result.v, "data")
        object_type == get_str(data.v, "type")
        content == get(data.v, "content")
        fields == get(content.v, "fields")
    IN  IF get(body, "error") # None THEN Failure("Sui RPC error")
        ELSE IF result = None THEN Failure("No result in RPC response")
        ELSE IF data = None THEN Failure("No data in result")
        ELSE IF object_type = None THEN Failure("Missing object type")
        ELSE IF object_type.v # expected_type(oracle_builder_package_id)
             THEN Failure("Expected PriceFeed type")
        ELSE IF content = None THEN Failure("Missing content")
        ELSE IF fields = None THEN Failure("Missing fields in content")
        ELSE parse_fields(fields.v)

\* the answer of the RPC endpoint: the POST fails, the body is not JSON, or a
\* JSON body arrives
SendFailed == [t |-> "send failed"]
NotJson == [t |-> "not json"]

fetch_price_feed(reply, oracle_builder_package_id) ==
    IF reply = SendFailed THEN Failure("Failed to send request to Sui RPC")
    ELSE IF reply = NotJson THEN Failure("Failed to parse response from Sui RPC")
    ELSE validate_response(reply, oracle_builder_package_id)

---------------------------------------------------------------------------
(* Inputs of the descriptor fetch *)

PACKAGE_ID == <<"0", "x", "A">>
OTHER_PACKAGE_ID == <<"0", "x", "B">>

Absent == [t |-> "absent"]

\* the JSON object holding the members of the record rec that are not Absent
Object(rec) == JObj([k \in {x \in DOMAIN rec : rec[x] # Absent} |-> rec[k]])

Text(c) == JStr(<<c>>)

\* content.fields, every member absent, well typed or wrongly typed
AllFields ==
    { Object(rec) : rec \in
        [ oracle_id : {Absent, Text("o"), JNum(PosInt(1))},
          is_valid : {Absent, JBool(TRUE), JBool(FALSE), Text("t")},
          api_key : {Absent, Text("k"), JNum(PosInt(1))},
          api_key_config : {Absent, JStr(<<"B", "e", "a", "r", "e", "r">>), JBool(TRUE)},
          underlying_url : {Absent, Text("u"), JNull},
          response_field : {Absent, Text("a"), JArr(<<>>)},
          live_url : {Absent, Text("l"), JNum(PosInt(0))} ] }

GoodFields ==
    Object([oracle_id |-> Text("o"), is_valid |-> JBool(TRUE), api_key |-> Absent,
            api_key_config |-> Absent, underlying_url |-> Text("u"),
            response_field |-> Text("a"), live_url |-> Text("l")])

SomeFields == {GoodFields, Object([is_valid |-> Absent]), Object([oracle_id |-> Text("o")])}

TypeValues ==
    { Absent, JNum(PosInt(1)), JStr(expected_type(PACKAGE_ID)),
      JStr(expected_type(OTHER_PACKAGE_ID)), JStr(PACKAGE_ID) }

\* the RPC bodies: every shape of the envelope around a few field objects,
\* and every field object inside a sound envelope
Envelopes(fieldObjects) ==
    { Object([error |-> e, result |-> r]) :
        e \in {Absent, JObj([code |-> JNum(NegInt(1))])},
        r \in {Absent, Text("r"), Object([data |-> Absent])}
              \cup { Object([data |-> Object([type |-> t, content |-> c])]) :
                       t \in TypeValues,
                       c \in {Absent, Object([fields |-> Absent])}
                             \cup {Object([fields |-> f]) : f \in fieldObjects} } }

SoundEnvelope(fields) ==
    Object([error |-> Absent,
            result |-> Object([data |-> Object([type |-> JStr(expected_type(PACKAGE_ID)),
                                               content |-> Object([fields |-> fields])])])])

Replies ==
    {SendFailed, NotJson}
    \cup Envelopes(SomeFields \cup {JNum(PosInt(1))})
    \cup {SoundEnvelope(f) : f \in AllFields}

InitFetch ==
    /\ Idle
    /\ \E reply \in Replies :
           arg = [fn |-> "fetch_price_feed", reply |-> reply,
                  oracle_builder_package_id |-> PACKAGE_ID]
    /\ ret = None

CallFetch ==
    /\ ret = None
    /\ arg.fn = "fetch_price_feed"
    /\ ret' = fetch_price_feed(arg.reply, arg.oracle_builder_package_id)
    /\ UNCHANGED <<arg, pipeline_vars>>

NextFetch == CallFetch

SpecFetch == InitFetch /\ [][NextFetch]_vars

---------------------------------------------------------------------------
(* The validation checks of fetch_price_feed, stated on the response body *)

RECURSIVE Lookup(_, _)
Lookup(value, keys) ==
    IF keys = <<>> THEN Some(value)
    ELSE IF get(value, Head(keys)) = None THEN None
    ELSE Lookup(get(value, Head(keys)).v, Tail(keys))

HasType(body, keys, type) == Lookup(body, keys) # None /\ Lookup(body, keys).v.t = type

FieldsPath == <<"result", "data", "content", "fields">>

\* the errors of fetch_price_feed on a JSON body
ValidationErrors ==
    << "Sui RPC error", "No result in RPC response", "No data in result",
       "Missing object type", "Expected PriceFeed type", "Missing content",
       "Missing fields in content", "Missing or invalid oracle_id field",
       "Missing or invalid is_valid field", "Missing or invalid underlying_url field",
       "Missing or invalid response_field field", "Missing or invalid live_url field" >>

\* the response violates what the error stands for
Violates(body, package_id, msg) ==
    CASE msg = "Sui RPC error" -> Lookup(body, <<"error">>) # None
      [] msg = "No result in RPC response" -> Lookup(body, <<"result">>) = None
      [] msg = "No data in result" -> Lookup(body, <<"result", "data">>) = None
      [] msg = "Missing object type" -> ~HasType(body, <<"result", "data", "type">>, "str")
      [] msg = "Expected PriceFeed type" ->
            \/ ~HasType(body, <<"result", "data", "type">>, "str")
            \/ Lookup(body, <<"result", "data", "type">>).v.v # expected_type(package_id)
      [] msg = "Missing content" -> Lookup(body, <<"result", "data", "content">>) = None
      [] msg = "Missing fields in content" -> Lookup(body, FieldsPath) = None
      [] msg = "Missing or invalid oracle_id field" ->
            ~HasType(body, FieldsPath \o <<"oracle_id">>, "str")
      [] msg = "Missing or invalid is_valid field" ->
            ~HasType(body, FieldsPath \o <<"is_valid">>, "bool")
      [] msg = "Missing or invalid underlying_url field" ->
            ~HasType(body, FieldsPath \o <<"underlying_url">>, "str")
      [] msg = "Missing or invalid response_field field" ->
            ~HasType(body, FieldsPath \o <<"response_field">>, "str")
      [] msg = "Missing or invalid live_url field" ->
            ~HasType(body, FieldsPath \o <<"live_url">>, "str")

\* the number the validation sequence of the design gives the check an error
\* belongs to: 1 no error field, 2 result.data, 3 type, 4 content.fields,
\* 5 the required strings, 6 is_valid
CheckNumber(msg) ==
    CASE msg = "Sui RPC error" -> 1
      [] msg \in {"No result in RPC response", "No data in result"} -> 2
      [] msg \in {"Missing object type", "Expected PriceFeed type"} -> 3
      [] msg \in {"Missing content", "Missing fields in content"} -> 4
      [] msg \in {"Missing or invalid oracle_id field",
                  "Missing or invalid underlying_url field",
                  "Missing or invalid response_field field",
                  "Missing or invalid live_url field"} -> 5
      [] msg = "Missing or invalid is_valid field" -> 6

IsBody(reply) == reply \notin {SendFailed, NotJson}

ViolatedErrors(body, package_id) ==
    {i \in DOMAIN ValidationErrors : Violates(body, package_id, ValidationErrors[i])}

Least(S) == CHOOSE x \in S : \A y \in S : x <= y

FetchReturned == arg.fn = "fetch_price_feed" /\ ret # None /\ IsBody(arg.reply)

\* C10 as stated: the error returned belongs to the lowest-numbered violated
\* check of the sequence 1-6, so that a missing required string (check 5) is
\* reported in preference to a missing is_valid (check 6).
C10_ErrorOfLowestNumberedCheck ==
    (FetchReturned /\ ret.kind = "Err")
    => CheckNumber(ret.msg) =
           Least({CheckNumber(ValidationErrors[i]) :
                      i \in ViolatedErrors(arg.reply, arg.oracle_builder_package_id)})

\* C10 amended: the checks are applied in the order of ValidationErrors (no
\* error field, result, data, type, content, fields, oracle_id, is_valid,
\* underlying_url, response_field, live_url): the call succeeds exactly when
\* none is violated, and fails with the error of the first violated one, so
\* is_valid is reported in preference to underlying_url, response_field and
\* live_url.
C10_ErrorOfFirstCheckInCodeOrder ==
    FetchReturned =>
        LET violated == ViolatedErrors(arg.reply, arg.oracle_builder_package_id)
        IN  IF violated = {} THEN ret.kind = "Ok"
            ELSE ret = Failure(ValidationErrors[Least(violated)])

\* a response without is_valid and without underlying_url was answered with
\* the is_valid error
C10_Witness ==
    /\ FetchReturned
    /\ Violates(arg.reply, arg.oracle_builder_package_id,
                "Missing or invalid underlying_url field")
    /\ ret = Failure("Missing or invalid is_valid field")

\* the string at content.fields.<name> of the body
FieldText(body, name) == Lookup(body, FieldsPath \o <<name>>).v.v

\* the optional string at content.fields.<name>: Some(text) when the member
\* is a JSON string
OptionalText(body, name) ==
    IF HasType(body, FieldsPath \o <<name>>, "str") THEN Some(FieldText(body, name)) ELSE None

\* C11: fetch_price_feed returns a descriptor only if the response has no
\* top-level error member, result.data.type is a string equal to
\* "<package id>::oracle_builder::PriceFeed" for the configured package id,
\* oracle_id, underlying_url, response_field and live_url are JSON strings and
\* is_valid is a JSON boolean; the descriptor's fields are those of the response.
C11_DescriptorOnlyFromValidResponse ==
    (arg.fn = "fetch_price_feed" /\ ret # None /\ ret.kind = "Ok") =>
        LET body == arg.reply
        IN  /\ IsBody(body)
            /\ Lookup(body, <<"error">>) = None
            /\ HasType(body, <<"result", "data", "type">>, "str")
            /\ Lookup(body, <<"result", "data", "type">>).v.v
                   = arg.oracle_builder_package_id \o TYPE_SUFFIX
            /\ \A name \in {"oracle_id", "underlying_url", "response_field", "live_url"} :
                   HasType(body, FieldsPath \o <<name>>, "str")
            /\ HasType(body, FieldsPath \o <<"is_valid">>, "bool")
            /\ ret.value.oracle_id = FieldText(body, "oracle_id")
            /\ ret.value.is_valid = FieldText(body, "is_valid")
            /\ ret.value.underlying_url = FieldText(body, "underlying_url")
            /\ ret.value.response_field = FieldText(body, "response_field")
            /\ ret.value.live_url = FieldText(body, "live_url")
            /\ ret.value.api_key = OptionalText(body, "api_key")
            /\ ret.value.api_key_config = OptionalText(body, "api_key_config")

\* a descriptor was returned, with its credentials, for a valid response
C11_Witness ==
    /\ FetchReturned
    /\ ret.kind = "Ok"
    /\ ret.value.oracle_id = <<"o">>
    /\ ret.value.is_valid = FALSE
    /\ ret.value.api_key = Some(<<"k">>)
    /\ ret.value.api_key_config = Some(<<"B", "e", "a", "r", "e", "r">>)

\* C17 as stated: an optional credential that is present in content.fields
\* but is not a JSON string makes the fetch fail; no descriptor is returned
\* with that field absent.
C17_WrongTypedCredentialFails ==
    (FetchReturned /\ Lookup(arg.reply, FieldsPath) # None
       /\ \E name \in {"api_key", "api_key_config"} :
              /\ Lookup(arg.reply, FieldsPath \o <<name>>) # None
              /\ ~HasType(arg.reply, FieldsPath \o <<name>>, "str"))
    => ret.kind = "Err"

---------------------------------------------------------------------------
(* The claims about normalization, stated on the decimal text of the input *)

NormalizeReturned == arg.fn = "normalize" /\ ret # None /\ arg.text \in DecimalTexts

\* the decimal value m / 10^s the input text denotes
RawPrice == Decimal_from_str(arg.text).v

\* n * 10^k, or some number above U64_MAX when that is above U64_MAX
RECURSIVE TimesPow10(_, _)
TimesPow10(n, k) == IF k = 0 \/ n > U64_MAX THEN n ELSE TimesPow10(10 * n, k - 1)

\* x * 10^d > 2^64 - 1
ExceedsU64(x, d) ==
    /\ ~x.neg
    /\ IF d >= x.s THEN TimesPow10(x.m, d - x.s) > U64_MAX
       ELSE \/ x.m \div Pow10(x.s - d) > U64_MAX
            \/ x.m \div Pow10(x.s - d) = U64_MAX /\ x.m % Pow10(x.s - d) # 0

\* n is x * 10^d rounded to the nearest integer, for x >= 0; at a tie
\* either neighbour is one
Nearest(n, x, d) ==
    IF d >= x.s THEN n = TimesPow10(x.m, d - x.s)
    ELSE LET unit == Pow10(x.s - d)
             whole == x.m \div unit
             part == x.m % unit
         IN  \/ n = whole /\ 2 * part <= unit
             \/ n = whole + 1 /\ 2 * part >= unit

\* C7: whenever x * 10^d exceeds 2^64 - 1, for every d (also those whose
\* 10^d does not fit u64), normalize returns the overflow error: it neither
\* wraps nor aborts.
C7_OverflowIsAlwaysAnError ==
    (NormalizeReturned /\ ExceedsU64(RawPrice, arg.decimals)) => ret = TooLarge

\* C8: a price that normalize returns is the scaled value rounded to the
\* nearest integer, price = round(raw_price * 10^decimals) (stated for the
\* decimals whose 10^d fits u64).
C8_PriceIsRoundedToNearest ==
    (NormalizeReturned /\ ret.kind = "Ok" /\ ~pow10_overflows(arg.decimals))
    => Nearest(ret.value, RawPrice, arg.decimals)

\* the u64 of a result, or that it is a failure
Outcome(result) == IF result.kind = "Ok" THEN Some(result.value) ELSE None

\* C9: the JSON number v and the JSON string whose text is v normalize to the
\* same outcome: the same u64, or a failure in both cases.
C9_StringAndNumberAgree ==
    (NormalizeReturned /\ arg.value.t = "num")
    => Outcome(ret) = Outcome(normalize(JStr(arg.text), arg.decimals, arg.checks))

---------------------------------------------------------------------------
(* app.rs: process_data, one request from its arrival to its answer *)

BEARER == <<"B", "e", "a", "r", "e", "r">>
X_API_KEY == <<"x", "-", "a", "p", "i", "-", "k", "e", "y">>

\* EnclaveError::GenericError(format!(...)): the message and what it quotes
GenericError(msg, detail) == [msg |-> msg, detail |-> detail]

\* build_request sending without a header when the scheme is unknown
build_request_ignoring_unknown_scheme(feed) ==
    LET get_request == [url |-> feed.underlying_url, headers |-> <<>>]
        with(name, value) ==
            [get_request EXCEPT !.headers = Append(@, [name |-> name, value |-> value])]
    IN  IF feed.api_key # None /\ feed.api_key_config # None
        THEN IF feed.api_key_config.v = BEARER
             THEN Ok(with("Authorization", BEARER \o <<" ">> \o feed.api_key.v))
             ELSE IF feed.api_key_config.v = X_API_KEY
             THEN Ok(with("x-api-key", feed.api_key.v))
             ELSE Ok(get_request)
        ELSE Ok(get_request)

\* build_request attaching the key under both header names for "Bearer"
build_request_two_headers(feed) ==
    LET get_request == [url |-> feed.underlying_url, headers |-> <<>>]
        with(name, value) ==
            [get_request EXCEPT !.headers = Append(@, [name |-> name, value |-> value])]
        both ==
            [get_request EXCEPT !.headers =
                <<[name |-> "Authorization", value |-> BEARER \o <<" ">> \o feed.api_key.v],
                  [name |-> "x-api-key", value |-> feed.api_key.v]>>]
    IN  IF feed.api_key # None /\ feed.api_key_config # None
        THEN IF feed.api_key_config.v = BEARER THEN Ok(both)
             ELSE IF feed.api_key_config.v = X_API_KEY
             THEN Ok(with("x-api-key", feed.api_key.v))
             ELSE Failure("Unsupported api_key_config")
        ELSE Ok(get_request)

\* lines 113-132: the request builder with its authentication header, or the
\* error of an unsupported api_key_config
build_request(feed) ==
    LET get_request == [url |-> feed.underlying_url, headers |-> <<>>]
        with(name, value) ==
            [get_request EXCEPT !.headers = Append(@, [name |-> name, value |-> value])]
    IN  IF feed.api_key # None /\ feed.api_key_config # None
        THEN IF feed.api_key_config.v = BEARER
             THEN Ok(with("Authorization", BEARER \o <<" ">> \o feed.api_key.v))
             ELSE IF feed.api_key_config.v = X_API_KEY
             THEN Ok(with("x-api-key", feed.api_key.v))
             ELSE Failure("Unsupported api_key_config")
        ELSE Ok(get_request)

\* common: IntentMessage::new(data, timestamp_ms, scope)
IntentMessage(data, timestamp_ms, scope) ==
    [intent |-> scope, timestamp_ms |-> timestamp_ms, data |-> data]

\* common: to_signed_response: the intent message and the signature of the
\* key over its serialization
to_signed_response(kp, payload, timestamp_ms, scope) ==
    [response |-> IntentMessage(payload, timestamp_ms, scope),
     signature |-> [signer |-> kp, message |-> IntentMessage(payload, timestamp_ms, scope)]]

Fail(msg, detail) ==
    /\ pc' = "Failed"
    /\ error' = GenericError(msg, detail)

---------------------------------------------------------------------------
(* Inputs of the pipeline *)

FeedIds == {<<"f", "1">>, <<"f", "2">>}

Path_a == <<"a">>
Path_a_b_0_a == <<"a", ".", "b", "[", "0", "]", ".", "a">>
Path_a_0 == <<"a", "[", "0", "]">>
Path_b == <<"b">>

\* the descriptors on chain
Descriptors ==
    { Object(rec) : rec \in
        [ oracle_id : {Text("o"), Text("p")},
          is_valid : {JBool(TRUE), JBool(FALSE)},
          api_key : {Absent, Text("k")},
          api_key_config : {Absent, JStr(BEARER), JStr(X_API_KEY), Text("U")},
          underlying_url : {Text("u")},
          response_field : {JStr(Path_a), JStr(Path_a_b_0_a), JStr(Path_a_0), JStr(Path_b)},
          live_url : {Text("l")} ] }

PipelineReplies ==
    {SendFailed, NotJson, Object([error |-> Text("e")]),
     SoundEnvelope(Object([oracle_id |-> Text("o")]))}
    \cup {SoundEnvelope(d) : d \in Descriptors}

TransportError == [t |-> "transport error"]

\* what the external endpoint answers with
ExternalResponses ==
    << TransportError,
       NotJson,
       \* {"a":{"b":[{"a":5}]}}
       JObj(Key_a :> JObj(Key_b :> JArr(<<JObj(Key_a :> Leaf(5))>>))),
       \* {"a":"100.5"}
       JObj(Key_a :> JStr(<<"1", "0", "0", ".", "5">>)),
       \* {"a":"x"}
       JObj(Key_a :> JStr(<<"x">>)),
       \* {"a":[0.129]}
       JObj(Key_a :> JArr(<<JNum(Float(FALSE, 129, -3))>>)),
       \* {"a":true}
       JObj(Key_a :> JBool(TRUE)),
       \* {"a":-1}
       JObj(Key_a :> JNum(NegInt(1))),
       \* {"a":"9999"}
       JObj(Key_a :> JStr(<<"9", "9", "9", "9">>)) >>

BeforeEpoch == [t |-> "before epoch"]
\* SystemTime::now().duration_since(UNIX_EPOCH): an error, or the milliseconds
ClockReadings == {BeforeEpoch, Some(1), Some(2)}

---------------------------------------------------------------------------
(* The pipeline *)

Init ==
    /\ pc = "Received"
    /\ overflow_checks \in BOOLEAN
    /\ price_decimals \in DecimalsValues
    /\ price_feed_id \in FeedIds
    /\ response_body = None
    /\ price_feed = None
    /\ request_builder = None
    /\ sent = <<>>
    /\ response = None
    /\ json = None
    /\ price_value = None
    /\ price = None
    /\ current_timestamp = None
    /\ signed = None
    /\ error = None
    /\ arg = None
    /\ ret = None

\* lines 100-104
FetchPriceFeed ==
    /\ pc = "Received"
    /\ \E reply \in PipelineReplies :
           LET fetched == fetch_price_feed(reply, PACKAGE_ID)
           IN  /\ response_body' = reply
               /\ IF fetched.kind = "Ok"
                  THEN /\ price_feed' = fetched.value
                       /\ pc' = "DescriptorFetched"
                       /\ UNCHANGED error
                  ELSE /\ Fail("Failed to fetch price feed", fetched.msg)
                       /\ UNCHANGED price_feed
    /\ UNCHANGED <<overflow_checks, price_decimals, price_feed_id, request_builder, sent,
                   response, json, price_value, price, current_timestamp, signed, arg, ret>>

\* CheckValid without the test of is_valid
CheckValid_never_rejects ==
    /\ pc = "DescriptorFetched"
    /\ pc' = "ValidityChecked"
    /\ UNCHANGED <<overflow_checks, price_decimals, price_feed_id, response_body, price_feed,
                   request_builder, sent, response, json, price_value, price,
                   current_timestamp, signed, error, arg, ret>>

\* lines 107-111
CheckValid ==
    /\ pc = "DescriptorFetched"
    /\ IF ~price_feed.is_valid
       THEN Fail("Price feed is not valid", <<>>)
       ELSE pc' = "ValidityChecked" /\ UNCHANGED error
    /\ UNCHANGED <<overflow_checks, price_decimals, price_feed_id, response_body, price_feed,
                   request_builder, sent, response, json, price_value, price,
                   current_timestamp, signed, arg, ret>>

\* lines 114-132
BuildRequest ==
    /\ pc = "ValidityChecked"
    /\ LET built == build_request(price_feed)
       IN  IF built.kind = "Ok"
           THEN /\ request_builder' = built.value
                /\ pc' = "RequestBuilt"
                /\ UNCHANGED error
           ELSE /\ Fail(built.msg, price_feed.api_key_config.v)
                /\ UNCHANGED request_builder
    /\ UNCHANGED <<overflow_checks, price_decimals, price_feed_id, response_body, price_feed,
                   sent, response, json, price_value, price, current_timestamp, signed,
                   arg, ret>>

\* SendRequest sending once more after a transport error
SendRequest_retrying ==
    /\ pc = "RequestBuilt"
    /\ sent' = Append(sent, request_builder)
    /\ \E i \in DOMAIN ExternalResponses :
           IF ExternalResponses[i] = TransportError
           THEN IF sent = <<>>
                THEN UNCHANGED <<pc, error, response>>
                ELSE Fail("Failed to get price feed response", <<>>) /\ UNCHANGED response
           ELSE /\ response' = ExternalResponses[i]
                /\ pc' = "ResponseReceived"
                /\ UNCHANGED error
    /\ UNCHANGED <<overflow_checks, price_decimals, price_feed_id, response_body, price_feed,
                   request_builder, json, price_value, price, current_timestamp, signed,
                   arg, ret>>

\* lines 135-137: request_builder.send().await
SendRequest ==
    /\ pc = "RequestBuilt"
    /\ sent' = Append(sent, request_builder)
    /\ \E i \in DOMAIN ExternalResponses :
           IF ExternalResponses[i] = TransportError
           THEN /\ Fail("Failed to get price feed response", <<>>)
                /\ UNCHANGED response
           ELSE /\ response' = ExternalResponses[i]
                /\ pc' = "ResponseReceived"
                /\ UNCHANGED error
    /\ UNCHANGED <<overflow_checks, price_decimals, price_feed_id, response_body, price_feed,
                   request_builder, json, price_value, price, current_timestamp, signed,
                   arg, ret>>

\* lines 139-141: response.json::<Value>().await
ParseResponse ==
    /\ pc = "ResponseReceived"
    /\ IF response = NotJson
       THEN Fail("Failed to parse price feed response", <<>>) /\ UNCHANGED json
       ELSE json' = response /\ pc' = "ExternalFetched" /\ UNCHANGED error
    /\ UNCHANGED <<overflow_checks, price_decimals, price_feed_id, response_body, price_feed,
                   request_builder, sent, response, price_value, price, current_timestamp,
                   signed, arg, ret>>

\* ExtractPrice reading a fixed member instead of the descriptor's response_field
ExtractPrice_fixed_path ==
    /\ pc = "ExternalFetched"
    /\ LET extracted == extract_field_from_json(json, <<"a">>)
       IN  CASE extracted.kind = "Ok" ->
                  price_value' = extracted.value /\ pc' = "ValueExtracted" /\ UNCHANGED error
             [] extracted.kind = "Err" ->
                  /\ Fail("Failed to extract price from field", extracted)
                  /\ UNCHANGED price_value
             [] extracted.kind = "Panic" ->
                  pc' = "Panicked" /\ UNCHANGED <<price_value, error>>
    /\ UNCHANGED <<overflow_checks, price_decimals, price_feed_id, response_body, price_feed,
                   request_builder, sent, response, json, price, current_timestamp, signed,
                   arg, ret>>

\* lines 144-150
ExtractPrice ==
    /\ pc = "ExternalFetched"
    /\ LET extracted == extract_field_from_json(json, price_feed.response_field)
       IN  CASE extracted.kind = "Ok" ->
                  price_value' = extracted.value /\ pc' = "ValueExtracted" /\ UNCHANGED error
             [] extracted.kind = "Err" ->
                  /\ Fail("Failed to extract price from field", extracted)
                  /\ UNCHANGED price_value
             [] extracted.kind = "Panic" ->
                  pc' = "Panicked" /\ UNCHANGED <<price_value, error>>
    /\ UNCHANGED <<overflow_checks, price_decimals, price_feed_id, response_body, price_feed,
                   request_builder, sent, response, json, price, current_timestamp, signed,
                   arg, ret>>

\* lines 152-181
Normalize ==
    /\ pc = "ValueExtracted"
    /\ LET normalized == normalize(price_value, price_decimals, overflow_checks)
       IN  CASE normalized.kind = "Ok" ->
                  price' = Some(normalized.value) /\ pc' = "Normalized" /\ UNCHANGED error
             [] normalized.kind = "Err" ->
                  Fail(normalized.msg, price_feed.response_field) /\ UNCHANGED price
             [] normalized.kind = "Panic" ->
                  pc' = "Panicked" /\ UNCHANGED <<price, error>>
    /\ UNCHANGED <<overflow_checks, price_decimals, price_feed_id, response_body, price_feed,
                   request_builder, sent, response, json, price_value, current_timestamp,
                   signed, arg, ret>>

\* lines 183-186
ReadClock ==
    /\ pc = "Normalized"
    /\ \E now \in ClockReadings :
           IF now = BeforeEpoch
           THEN Fail("Failed to get current timestamp", <<>>) /\ UNCHANGED current_timestamp
           ELSE current_timestamp' = now /\ pc' = "Timestamped" /\ UNCHANGED error
    /\ UNCHANGED <<overflow_checks, price_decimals, price_feed_id, response_body, price_feed,
                   request_builder, sent, response, json, price_value, price, signed,
                   arg, ret>>

\* Respond with the payload's timestamp_ms taken from a second clock reading
Respond_second_reading ==
    /\ pc = "Timestamped"
    /\ \E now \in ClockReadings \ {BeforeEpoch} :
           signed' = to_signed_response(
                         "eph_kp",
                         [oracle_id |-> price_feed.oracle_id,
                          price_feed_id |-> price_feed_id,
                          price |-> price.v,
                          timestamp_ms |-> now.v],
                         current_timestamp.v,
                         "PriceFeed")
    /\ pc' = "Delivered"
    /\ UNCHANGED <<overflow_checks, price_decimals, price_feed_id, response_body, price_feed,
                   request_builder, sent, response, json, price_value, price,
                   current_timestamp, error, arg, ret>>

\* Respond with the two identifiers of the payload exchanged
Respond_swapped_ids ==
    /\ pc = "Timestamped"
    /\ signed' = to_signed_response(
                     "eph_kp",
                     [oracle_id |-> price_feed_id,
                      price_feed_id |-> price_feed.oracle_id,
                      price |-> price.v,
                      timestamp_ms |-> current_timestamp.v],
                     current_timestamp.v,
                     "PriceFeed")
    /\ pc' = "Delivered"
    /\ UNCHANGED <<overflow_checks, price_decimals, price_feed_id, response_body, price_feed,
                   request_builder, sent, response, json, price_value, price,
                   current_timestamp, error, arg, ret>>

\* lines 188-198
Respond ==
    /\ pc = "Timestamped"
    /\ signed' = to_signed_response(
                     "eph_kp",
                     [oracle_id |-> price_feed.oracle_id,
                      price_feed_id |-> price_feed_id,
                      price |-> price.v,
                      timestamp_ms |-> current_timestamp.v],
                     current_timestamp.v,
                     "PriceFeed")
    /\ pc' = "Delivered"
    /\ UNCHANGED <<overflow_checks, price_decimals, price_feed_id, response_body, price_feed,
                   request_builder, sent, response, json, price_value, price,
                   current_timestamp, error, arg, ret>>

Next ==
    \/ FetchPriceFeed
    \/ CheckValid
    \/ BuildRequest
    \/ SendRequest
    \/ ParseResponse
    \/ ExtractPrice
    \/ Normalize
    \/ ReadClock
    \/ Respond

Spec == Init /\ [][Next]_vars

---------------------------------------------------------------------------
(* The claims about the pipeline *)

InvalidFeed == price_feed # None /\ ~price_feed.is_valid

\* C1: when the fetched descriptor has is_valid = false the request ends in
\* the failure "Price feed is not valid", and no external GET has been
\* issued for it, at the failure or at any time.
C1_InvalidFeedFailsBeforeAnyGet ==
    /\ [](InvalidFeed =>
            /\ sent = <<>>
            /\ pc \in {"DescriptorFetched", "Failed"}
            /\ pc = "Failed" => error = GenericError("Price feed is not valid", <<>>))
    /\ [][InvalidFeed /\ pc = "DescriptorFetched" => pc' = "Failed"]_vars

C1_Witness ==
    /\ InvalidFeed
    /\ pc = "Failed"
    /\ error = GenericError("Price feed is not valid", <<>>)
    /\ sent = <<>>

BothCredentials ==
    price_feed # None /\ price_feed.api_key # None /\ price_feed.api_key_config # None

UnsupportedScheme ==
    BothCredentials /\ price_feed.api_key_config.v \notin {BEARER, X_API_KEY}

BearerHeader(feed) ==
    [name |-> "Authorization", value |-> BEARER \o <<" ">> \o feed.api_key.v]
ApiKeyHeader(feed) == [name |-> "x-api-key", value |-> feed.api_key.v]

\* C5: every GET issued carries at most one authentication header: exactly
\* the one api_key_config selects when api_key and api_key_config are both
\* present, and none, without an error of the scheme selection, when either
\* is absent.
C5_AtMostOneAuthHeader ==
    /\ \A i \in DOMAIN sent :
          /\ Len(sent[i].headers) <= 1
          /\ sent[i].url = price_feed.underlying_url
          /\ (BothCredentials /\ price_feed.api_key_config.v = BEARER)
                 => sent[i].headers = <<BearerHeader(price_feed)>>
          /\ (BothCredentials /\ price_feed.api_key_config.v = X_API_KEY)
                 => sent[i].headers = <<ApiKeyHeader(price_feed)>>
          /\ ~BothCredentials => sent[i].headers = <<>>
    /\ (price_feed # None /\ ~BothCredentials /\ error # None)
           => error.msg # "Unsupported api_key_config"

C5_Witness ==
    /\ Len(sent) = 1
    /\ BothCredentials
    /\ sent[1].headers = <<[name |-> "Authorization", value |-> BEARER \o <<" ", "k">>]>>

\* the errors of the stages, in the order of the stages, and for each the
\* results that only a later statement of process_data produces
StageErrors ==
    << {"Failed to fetch price feed"},
       {"Price feed is not valid"},
       {"Unsupported api_key_config"},
       {"Failed to get price feed response"},
       {"Failed to parse price feed response"},
       {"Failed to extract price from field"},
       {"Price field is not a valid number string", "Price field is not a valid number",
        "Price field is neither a string nor a number",
        "Scaled price is too large to fit in u64"},
       {"Failed to get current timestamp"} >>

FailedStage == CHOOSE i \in DOMAIN StageErrors : error.msg \in StageErrors[i]

\* result k exists only once stage k has succeeded (the validity check has no
\* result of its own: the request builder is the first thing made after it)
Produced ==
    << price_feed # None, request_builder # None, request_builder # None,
       response # None, json # None,
       price_value # None, price # None, current_timestamp # None >>

\* C6: the failure of any stage ends the request in the failed state at once:
\* no later stage has run or runs, no further network call is issued, nothing
\* is sent twice, and no signed envelope exists.
C6_FailureIsTerminal ==
    /\ [](error # None <=> pc = "Failed")
    /\ [](Len(sent) <= 1)
    /\ [](pc = "Failed" =>
            /\ signed = None
            /\ \A k \in DOMAIN Produced : k >= FailedStage => ~Produced[k]
            /\ FailedStage <= 3 => sent = <<>>)
    /\ [][pc # "Failed"]_vars

\* a request that failed at the clock, after its one external call
C6_Witness ==
    /\ pc = "Failed"
    /\ error = GenericError("Failed to get current timestamp", <<>>)
    /\ Len(sent) = 1
    /\ price # None
    /\ signed = None

\* the stages of a request in the order of process_data; the external fetch
\* is the three steps RequestBuilt, ResponseReceived, ExternalFetched, and
\* Delivered is reached by signing
StageOrder ==
    << "Received", "DescriptorFetched", "ValidityChecked", "RequestBuilt", "ResponseReceived",
       "ExternalFetched", "ValueExtracted", "Normalized", "Timestamped", "Delivered" >>

Stages == {StageOrder[i] : i \in DOMAIN StageOrder}

Rank(stage) == CHOOSE i \in DOMAIN StageOrder : StageOrder[i] = stage

\* the request is at or past the stage
Reached(stage) == pc \in Stages /\ Rank(pc) >= Rank(stage)

\* C12: a request moves through the stages in their order, one stage at a
\* time and never backwards, so a delivered request has passed each exactly
\* once; the external GET is issued only after the chain fetch has succeeded,
\* with the underlying_url and credentials of the descriptor of this request,
\* and the value extracted is the one at that descriptor's response_field.
C12_StagesInOrder ==
    /\ [][pc' \in Stages => (pc \in Stages /\ Rank(pc') = Rank(pc) + 1)]_vars
    /\ [][price_feed # None => price_feed' = price_feed]_vars
    /\ [](sent # <<>> =>
            /\ price_feed = fetch_price_feed(response_body, PACKAGE_ID).value
            /\ price_feed.is_valid
            /\ sent = <<build_request(price_feed).value>>
            /\ sent[1].url = price_feed.underlying_url)
    /\ [](Reached("DescriptorFetched") =>
            price_feed = fetch_price_feed(response_body, PACKAGE_ID).value)
    /\ [](Reached("ResponseReceived") <=> (pc \in Stages /\ sent # <<>>))
    /\ [](Reached("ValueExtracted") =>
            /\ json = response
            /\ extract_field_from_json(json, price_feed.response_field) = Ok(price_value))
    /\ [](Reached("Normalized") =>
            normalize(price_value, price_decimals, overflow_checks) = Ok(price.v))
    /\ [](Reached("Timestamped") => current_timestamp \in ClockReadings \ {BeforeEpoch})
    /\ [](pc = "Delivered" <=> signed # None)

\* a delivered request whose value was found under an index of the response
C12_Witness ==
    /\ pc = "Delivered"
    /\ Len(sent) = 1
    /\ price_feed.response_field = Path_a_0
    /\ signed # None

---------------------------------------------------------------------------
(* Concurrent requests: one task per request, all holding the same          *)
(* Arc<AppState>.  In this specification every variable of a request is a   *)
(* function of the request; price_decimals and overflow_checks are the      *)
(* shared configuration and build.                                          *)

\* requests in flight at once
NumRequests == 2

Requests == 1..NumRequests

Terminal == {"Delivered", "Failed", "Panicked"}

\* the locals of request r
Local(r) ==
    [pc |-> pc[r], price_feed_id |-> price_feed_id[r], response_body |-> response_body[r],
     price_feed |-> price_feed[r], request_builder |-> request_builder[r], sent |-> sent[r],
     response |-> response[r], json |-> json[r], price_value |-> price_value[r],
     price |-> price[r], current_timestamp |-> current_timestamp[r], signed |-> signed[r],
     error |-> error[r]]

\* the locals of a request that has just arrived
NewRequest(id) ==
    [pc |-> "Received", price_feed_id |-> id, response_body |-> None, price_feed |-> None,
     request_builder |-> None, sent |-> <<>>, response |-> None, json |-> None,
     price_value |-> None, price |-> None, current_timestamp |-> None, signed |-> None,
     error |-> None]

Failing(l, msg, detail) == [l EXCEPT !.pc = "Failed", !.error = GenericError(msg, detail)]

\* the next statement of process_data on the locals l, with the shared
\* configuration and what the network and the clock answer with
process_data_step(l, decimals, checks, reply, external, now) ==
    CASE l.pc = "Received" ->
            LET fetched == fetch_price_feed(reply, PACKAGE_ID)
                got == [l EXCEPT !.response_body = reply]
            IN  IF fetched.kind = "Ok"
                THEN [got EXCEPT !.price_feed = fetched.value, !.pc = "DescriptorFetched"]
                ELSE Failing(got, "Failed to fetch price feed", fetched.msg)
      [] l.pc = "DescriptorFetched" ->
            IF ~l.price_feed.is_valid THEN Failing(l, "Price feed is not valid", <<>>)
            ELSE [l EXCEPT !.pc = "ValidityChecked"]
      [] l.pc = "ValidityChecked" ->
            LET built == build_request(l.price_feed)
            IN  IF built.kind = "Ok"
                THEN [l EXCEPT !.request_builder = built.value, !.pc = "RequestBuilt"]
                ELSE Failing(l, built.msg, l.price_feed.api_key_config.v)
      [] l.pc = "RequestBuilt" ->
            LET issued == [l EXCEPT !.sent = Append(@, l.request_builder)]
            IN  IF external = TransportError
                THEN Failing(issued, "Failed to get price feed response", <<>>)
                ELSE [issued EXCEPT !.response = external, !.pc = "ResponseReceived"]
      [] l.pc = "ResponseReceived" ->
            IF l.response = NotJson
            THEN Failing(l, "Failed to parse price feed response", <<>>)
            ELSE [l EXCEPT !.json = l.response, !.pc = "ExternalFetched"]
      [] l.pc = "ExternalFetched" ->
            LET extracted == extract_field_from_json(l.json, l.price_feed.response_field)
            IN  IF extracted.kind = "Ok"
                THEN [l EXCEPT !.price_value = extracted.value, !.pc = "ValueExtracted"]
                ELSE IF extracted.kind = "Err"
                THEN Failing(l, "Failed to extract price from field", extracted)
                ELSE [l EXCEPT !.pc = "Panicked"]
      [] l.pc = "ValueExtracted" ->
            LET normalized == normalize(l.price_value, decimals, checks)
            IN  IF normalized.kind = "Ok"
                THEN [l EXCEPT !.price = Some(normalized.value), !.pc = "Normalized"]
                ELSE IF normalized.kind = "Err"
                THEN Failing(l, normalized.msg, l.price_feed.response_field)
                ELSE [l EXCEPT !.pc = "Panicked"]
      [] l.pc = "Normalized" ->
            IF now = BeforeEpoch THEN Failing(l, "Failed to get current timestamp", <<>>)
            ELSE [l EXCEPT !.current_timestamp = now, !.pc = "Timestamped"]
      [] l.pc = "Timestamped" ->
            [l EXCEPT !.signed =
                          to_signed_response(
                              "eph_kp",
                              [oracle_id |-> l.price_feed.oracle_id,
                               price_feed_id |-> l.price_feed_id,
                               price |-> l.price.v,
                               timestamp_ms |-> l.current_timestamp.v],
                              l.current_timestamp.v,
                              "PriceFeed"),
                      !.pc = "Delivered"]

\* what the Sui RPC and the external endpoint answer with, and the feed ids
ConcurrentReplies ==
    { SendFailed,
      SoundEnvelope(Object([oracle_id |-> Text("o"), is_valid |-> JBool(TRUE),
                            underlying_url |-> Text("u"), response_field |-> JStr(Path_a),
                            live_url |-> Text("l")])),
      SoundEnvelope(Object([oracle_id |-> Text("p"), is_valid |-> JBool(TRUE),
                            api_key |-> Text("k"), api_key_config |-> JStr(BEARER),
                            underlying_url |-> Text("v"), response_field |-> JStr(Path_a_0),
                            live_url |-> Text("l")])),
      SoundEnvelope(Object([oracle_id |-> Text("o"), is_valid |-> JBool(FALSE),
                            underlying_url |-> Text("u"), response_field |-> JStr(Path_a),
                            live_url |-> Text("l")])) }

ConcurrentResponses ==
    { TransportError,
      \* {"a":"100.5"}
      JObj(Key_a :> JStr(<<"1", "0", "0", ".", "5">>)),
      \* {"a":[7]}
      JObj(Key_a :> JArr(<<Leaf(7)>>)) }

\* the inputs request r has consumed so far
NoInputs == [reply |-> None, external |-> None, now |-> None]

Consumed(inputs, at, reply, external, now) ==
    CASE at = "Received" -> [inputs EXCEPT !.reply = reply]
      [] at = "RequestBuilt" -> [inputs EXCEPT !.external = external]
      [] at = "Normalized" -> [inputs EXCEPT !.now = now]
      [] OTHER -> inputs

\* what a statement at position at can be answered with: one of the answers
\* at the statement that waits for them, nothing elsewhere
Answers(at, waiting, answers) == IF at = waiting THEN answers ELSE {None}

\* the locals of r become l; those of the other requests stay
Store(r, l) ==
    /\ pc' = [pc EXCEPT ![r] = l.pc]
    /\ price_feed_id' = [price_feed_id EXCEPT ![r] = l.price_feed_id]
    /\ response_body' = [response_body EXCEPT ![r] = l.response_body]
    /\ price_feed' = [price_feed EXCEPT ![r] = l.price_feed]
    /\ request_builder' = [request_builder EXCEPT ![r] = l.request_builder]
    /\ sent' = [sent EXCEPT ![r] = l.sent]
    /\ response' = [response EXCEPT ![r] = l.response]
    /\ json' = [json EXCEPT ![r] = l.json]
    /\ price_value' = [price_value EXCEPT ![r] = l.price_value]
    /\ price' = [price EXCEPT ![r] = l.price]
    /\ current_timestamp' = [current_timestamp EXCEPT ![r] = l.current_timestamp]
    /\ signed' = [signed EXCEPT ![r] = l.signed]
    /\ error' = [error EXCEPT ![r] = l.error]

InitConcurrent ==
    /\ overflow_checks \in BOOLEAN
    /\ price_decimals \in {0, 2}
    /\ price_feed_id = [r \in Requests |-> IF r % 2 = 1 THEN <<"f", "1">> ELSE <<"f", "2">>]
    /\ pc = [r \in Requests |-> "Received"]
    /\ response_body = [r \in Requests |-> None]
    /\ price_feed = [r \in Requests |-> None]
    /\ request_builder = [r \in Requests |-> None]
    /\ sent = [r \in Requests |-> <<>>]
    /\ response = [r \in Requests |-> None]
    /\ json = [r \in Requests |-> None]
    /\ price_value = [r \in Requests |-> None]
    /\ price = [r \in Requests |-> None]
    /\ current_timestamp = [r \in Requests |-> None]
    /\ signed = [r \in Requests |-> None]
    /\ error = [r \in Requests |-> None]
    /\ arg = [r \in Requests |-> NoInputs]
    /\ ret = None

\* a step of r that takes the descriptor another request has fetched, when
\* there is one, instead of fetching its own
RequestStep_shared_descriptor(r) ==
    /\ pc[r] \notin Terminal
    /\ \E reply \in Answers(pc[r], "Received", ConcurrentReplies),
          external \in Answers(pc[r], "RequestBuilt", ConcurrentResponses),
          now \in Answers(pc[r], "Normalized", ClockReadings) :
           LET others == {q \in Requests \ {r} : price_feed[q] # None}
               cached == CHOOSE q \in others : TRUE
               own == process_data_step(Local(r), price_decimals, overflow_checks,
                                        reply, external, now)
           IN  /\ IF pc[r] = "Received" /\ others # {}
                  THEN Store(r, [Local(r) EXCEPT !.response_body = reply,
                                                 !.price_feed = price_feed[cached],
                                                 !.pc = "DescriptorFetched"])
                  ELSE Store(r, own)
               /\ arg' = [arg EXCEPT ![r] = Consumed(@, pc[r], reply, external, now)]
    /\ UNCHANGED <<overflow_checks, price_decimals, ret>>

\* the task of request r runs its next statement; the shared AppState is
\* only read (state.rs 9-16: no field with interior mutability)
RequestStep(r) ==
    /\ pc[r] \notin Terminal
    /\ \E reply \in Answers(pc[r], "Received", ConcurrentReplies),
          external \in Answers(pc[r], "RequestBuilt", ConcurrentResponses),
          now \in Answers(pc[r], "Normalized", ClockReadings) :
           /\ Store(r, process_data_step(Local(r), price_decimals, overflow_checks,
                                         reply, external, now))
           /\ arg' = [arg EXCEPT ![r] = Consumed(@, pc[r], reply, external, now)]
    /\ UNCHANGED <<overflow_checks, price_decimals, ret>>

NextConcurrent == \E r \in Requests : RequestStep(r)

SpecConcurrent == InitConcurrent /\ [][NextConcurrent]_vars

\* the request run alone from l to its end, on the given inputs
RECURSIVE RunAlone(_, _, _, _)
RunAlone(l, decimals, checks, inputs) ==
    IF l.pc \in Terminal THEN l
    ELSE RunAlone(process_data_step(l, decimals, checks,
                                    inputs.reply, inputs.external, inputs.now),
                  decimals, checks, inputs)

\* C13: for every interleaving of the steps of the requests, a step of one
\* request changes nothing of another request and nothing of the shared
\* configuration, and the outcome of each request is the outcome it has when
\* run alone on the same network responses and clock reading.
C13_RequestsAreIsolated ==
    /\ [][UNCHANGED <<price_decimals, overflow_checks>>]_vars
    /\ [][\A r \in Requests :
             pc'[r] # pc[r] => \A q \in Requests \ {r} : Local(q)' = Local(q)]_vars
    /\ [](\A r \in Requests :
             pc[r] \in Terminal =>
                 Local(r) = RunAlone(NewRequest(price_feed_id[r]), price_decimals,
                                     overflow_checks, arg[r]))

\* two requests that ran together, on different descriptors, one delivered
\* and the other failed at its external call
C13_Witness ==
    /\ pc[1] = "Delivered"
    /\ pc[2] = "Failed"
    /\ price_feed[1] # None /\ price_feed[2] # None
    /\ price_feed[1].oracle_id # price_feed[2].oracle_id
    /\ error[2].msg = "Failed to get price feed response"
    /\ signed[1].response.data.oracle_id = price_feed[1].oracle_id

---------------------------------------------------------------------------
(* The claims about what is delivered *)

\* the payload of the signed response
Delivered == signed.response.data

\* the decimal value m / 10^s of a JSON string or number that denotes one
ValueDecimal(value) ==
    IF value.t = "str" THEN Decimal_from_str(value.v)
    ELSE IF value.t = "num" THEN Decimal_from_str(number_to_string(value.v))
    ELSE None

\* C14: the delivered price is the normalization round(v * 10^price_decimals),
\* with the configured price_decimals, of the value v located at the
\* descriptor's response_field in the external response.
C14_PriceIsNormalizedAddressedValue ==
    pc = "Delivered" =>
        LET located == Addressed(response, price_feed.response_field)
        IN  /\ located.kind = "Ok"
            /\ ValueDecimal(located.value) # None
            /\ ~ExceedsU64(ValueDecimal(located.value).v, price_decimals)
            /\ Nearest(Delivered.price, ValueDecimal(located.value).v, price_decimals)
\* C15: in the delivered payload oracle_id is the oracle_id of the
\* descriptor fetched for this request, as the chain answered it, and
\* price_feed_id is the identifier the caller supplied; neither is changed on
\* the way.
C15_IdentifiersAreCopied ==
    /\ [][price_feed_id' = price_feed_id]_vars
    /\ [](pc = "Delivered" =>
            /\ Delivered.oracle_id = price_feed.oracle_id
            /\ Delivered.oracle_id = FieldText(response_body, "oracle_id")
            /\ Delivered.price_feed_id = price_feed_id
            /\ signed.signature.message.data = Delivered)

C15_Witness ==
    /\ pc = "Delivered"
    /\ FieldText(response_body, "oracle_id") = <<"p">>
    /\ price_feed_id = <<"f", "2">>
    /\ Delivered.oracle_id = <<"p">>
    /\ Delivered.price_feed_id = <<"f", "2">>
\* the extracted value denotes a number below zero
NegativeValue ==
    /\ price_value # None
    /\ ValueDecimal(price_value) # None
    /\ ValueDecimal(price_value).v.neg

\* C20: a negative extracted value never yields a delivered price, for any
\* price_decimals: no price is computed from it, the request is not
\* delivered and nothing is signed.
C20_NegativeNeverDelivered ==
    NegativeValue => (price = None /\ pc # "Delivered" /\ signed = None)

\* the envelope of the signed response: the intent message around the payload
Envelope == signed.response

\* C21: in every delivered envelope the timestamp_ms of the payload equals the
\* timestamp_ms of the envelope, the scope tag is PriceFeed, and both
\* timestamps are the one clock reading of the request: the clock is read
\* once, after the price is normalized and while nothing is signed, and the
\* reading is not changed afterwards.
C21_OneTimestampInEnvelope ==
    /\ [][current_timestamp' # current_timestamp =>
             /\ pc = "Normalized"
             /\ price # None
             /\ current_timestamp = None
             /\ signed = None /\ signed' = None]_vars
    /\ [][signed' # signed =>
             /\ current_timestamp # None
             /\ current_timestamp' = current_timestamp]_vars
    /\ [](pc = "Delivered" =>
            /\ Delivered.timestamp_ms = current_timestamp.v
            /\ Envelope.timestamp_ms = current_timestamp.v
            /\ Delivered.timestamp_ms = Envelope.timestamp_ms
            /\ Envelope.intent = "PriceFeed"
            /\ signed.signature.message = Envelope)

\* a delivered envelope whose clock reading was the later of the two
C21_Witness ==
    /\ pc = "Delivered"
    /\ current_timestamp = Some(2)
    /\ Delivered.timestamp_ms = 2
    /\ Envelope.timestamp_ms = 2
    /\ Envelope.intent = "PriceFeed"

====
